---- MODULE Spec2Model ----
(***************************************************************************)
(* mindbender: LSB steganography with optional AES-256-GCM encryption and  *)
(* zlib compression framing.  Texts are sequences of bytes (0..255), an    *)
(* image is a record [width, height, data] whose data is the flat sequence *)
(* of channel bytes in row-major R,G,B order.                              *)
(***************************************************************************)
EXTENDS Integers, Sequences, FiniteSets, TLC

\* ------------------------------------------------------------------------
\* Bounds of the model
\* ------------------------------------------------------------------------
\* largest number of pixels of a carrier drawn for the pure LSB operations
MaxLsbPixels == 12
\* longest text drawn for the pure LSB operations
MaxLsbText == 3
\* most operations started in one session of the terminal interface
MaxRuns == 2
\* longest key typed in the terminal interface
MaxKeyLen == 1

\* ------------------------------------------------------------------------
\* Results (Result<T, ApplicationError>, plus a panic outcome)
\* ------------------------------------------------------------------------
Ok(v) == [kind |-> "Ok", val |-> v, msg |-> ""]

Err(k, m) == [kind |-> k, val |-> <<>>, msg |-> m]

Panic(m) == [kind |-> "Panic", val |-> <<>>, msg |-> m]

NoResult == [kind |-> "None", val |-> <<>>, msg |-> ""]

\* ------------------------------------------------------------------------
\* Images
\* ------------------------------------------------------------------------
Samples(image) == image.data

NoImage == [width |-> 0, height |-> 0, data |-> <<>>]

\* bit j (0 = least significant) of byte b
Bit(b, j) == (b \div (2 ^ j)) % 2

\* ------------------------------------------------------------------------
\* steganography/util.rs
\* ------------------------------------------------------------------------
BITS_PER_CHAR == 8

DELIMITER_SIZE == 1

is_sufficient_capacity_strict(text, image) ==
    (Len(text) + DELIMITER_SIZE) * BITS_PER_CHAR < Len(Samples(image))

is_sufficient_capacity_always(text, image) == TRUE

is_sufficient_capacity(text, image) ==
    LET text_length == Len(text) + DELIMITER_SIZE
        total_bits_needed == text_length * BITS_PER_CHAR
        available_bits == Len(Samples(image))
    IN  total_bits_needed <= available_bits

\* ------------------------------------------------------------------------
\* steganography/lsb.rs
\* ------------------------------------------------------------------------
\* the bits of a byte sequence, most significant bit of each byte first
BitsOf_lsb_first(bytes) ==
    [i \in 1..(8 * Len(bytes)) |-> Bit(bytes[((i - 1) \div 8) + 1], (i - 1) % 8)]

BitsOf(bytes) ==
    [i \in 1..(8 * Len(bytes)) |-> Bit(bytes[((i - 1) \div 8) + 1], 7 - ((i - 1) % 8))]

\* coordinates touched by iteration i (0-based) of the embedding loop
PixelX(i, width) == (i \div 3) % width

PixelY(i, width) == (i \div 3) \div width

ChannelIndex(i) == i % 3

\* 1-based position in the flat sample buffer of channel ch of pixel (x, y)
SampleIndex(x, y, ch, width) == (y * width + x) * 3 + ch + 1

\* get_pixel_mut panics outside the image; x % width traps when width = 0
InBounds(i, image) ==
    /\ image.width > 0
    /\ PixelX(i, image.width) < image.width
    /\ PixelY(i, image.width) < image.height

SetLsb_clobber(byte, bit) == bit

SetLsb(byte, bit) == (byte - (byte % 2)) + bit

\* one iteration of the embedding loop
WriteBit(data, i, bit, width) ==
    LET k == SampleIndex(PixelX(i, width), PixelY(i, width), ChannelIndex(i), width)
    IN  [data EXCEPT ![k] = SetLsb(data[k], bit)]

\* iterations lo..hi (0-based, in order) of the embedding loop
RECURSIVE WriteBits(_, _, _, _, _)
WriteBits(data, bits, lo, hi, width) ==
    IF lo > hi THEN data
    ELSE IF lo = hi THEN WriteBit(data, lo, bits[lo + 1], width)
    ELSE LET mid == (lo + hi) \div 2
             first == WriteBits(data, bits, lo, mid, width)
         IN  \* the first half is evaluated before the second is started
             IF Len(first) = Len(data) THEN WriteBits(first, bits, mid + 1, hi, width)
             ELSE first

lsb_encode_no_delimiter(data, image) ==
    IF ~is_sufficient_capacity(data \o <<0>>, image)
    THEN Err("EncodingError", "Image too small to encode data")
    ELSE LET bits == BitsOf(data)
         IN  Ok([image EXCEPT !.data = WriteBits(image.data, bits, 0, Len(bits) - 1, image.width)])

lsb_encode_unchecked(data, image) ==
    LET bits == BitsOf(data \o <<0>>)
        n == IF Len(bits) <= Len(image.data) THEN Len(bits) ELSE Len(image.data)
    IN  Ok([image EXCEPT !.data = WriteBits(image.data, bits, 0, n - 1, image.width)])

lsb_encode_reject_nul(data, image) ==
    IF ~is_sufficient_capacity(data \o <<0>>, image) \/ \E k \in 1..Len(data) : data[k] = 0
    THEN Err("EncodingError", "Image too small to encode data")
    ELSE LET bits == BitsOf(data \o <<0>>)
         IN  Ok([image EXCEPT !.data = WriteBits(image.data, bits, 0, Len(bits) - 1, image.width)])

lsb_encode(data, image) ==
    LET data_with_delimiter == data \o <<0>>
    IN  IF ~is_sufficient_capacity(data_with_delimiter, image)
        THEN Err("EncodingError", "Image too small to encode data")
        ELSE LET bits == BitsOf(data_with_delimiter)
             IN  IF \E i \in 0..(Len(bits) - 1) : ~InBounds(i, image)
                 THEN Panic("pixel out of bounds")
                 ELSE Ok([image EXCEPT !.data =
                             WriteBits(image.data, bits, 0, Len(bits) - 1, image.width)])

\* value of chunk k (1-based) of bits.chunks(8): the last chunk may be short
ChunkByte(bits, k) ==
    LET lo == 8 * (k - 1) + 1
        hi == IF 8 * k <= Len(bits) THEN 8 * k ELSE Len(bits)
        Fold[j \in (lo - 1)..hi] == IF j < lo THEN 0 ELSE (2 * Fold[j - 1] + bits[j]) % 256
    IN  Fold[hi]

\* the bytes pushed before the loop breaks at the first zero chunk
ExtractBytes_skip_zero(image) ==
    LET bits == [i \in 1..Len(Samples(image)) |-> Samples(image)[i] % 2]
        nchunks == (Len(bits) + 7) \div 8
    IN  SelectSeq([k \in 1..nchunks |-> ChunkByte(bits, k)], LAMBDA b : b # 0)

ExtractBytes(image) ==
    LET bits == [i \in 1..Len(Samples(image)) |-> Samples(image)[i] % 2]
        nchunks == (Len(bits) + 7) \div 8
        byte == [k \in 1..nchunks |-> ChunkByte(bits, k)]
        zeros == {k \in 1..nchunks : byte[k] = 0}
        stop == IF zeros = {} THEN nchunks + 1
                ELSE CHOOSE k \in zeros : \A m \in zeros : k <= m
    IN  [k \in 1..(stop - 1) |-> byte[k]]

\* String::from_utf8 (std): well-formed UTF-8, no overlong forms or surrogates
IsCont(b) == b >= 128 /\ b <= 191

RECURSIVE Utf8From(_, _)
Utf8From(s, i) ==
    IF i > Len(s) THEN TRUE
    ELSE LET b == s[i]
             c(k) == IF i + k <= Len(s) THEN s[i + k] ELSE 0
         IN  IF b < 128 THEN Utf8From(s, i + 1)
             ELSE IF b >= 194 /\ b <= 223 THEN IsCont(c(1)) /\ Utf8From(s, i + 2)
             ELSE IF b = 224 THEN c(1) >= 160 /\ c(1) <= 191 /\ IsCont(c(2)) /\ Utf8From(s, i + 3)
             ELSE IF b = 237 THEN c(1) >= 128 /\ c(1) <= 159 /\ IsCont(c(2)) /\ Utf8From(s, i + 3)
             ELSE IF b >= 225 /\ b <= 239 THEN IsCont(c(1)) /\ IsCont(c(2)) /\ Utf8From(s, i + 3)
             ELSE IF b = 240 THEN c(1) >= 144 /\ c(1) <= 191 /\ IsCont(c(2)) /\ IsCont(c(3))
                                  /\ Utf8From(s, i + 4)
             ELSE IF b >= 241 /\ b <= 243 THEN IsCont(c(1)) /\ IsCont(c(2)) /\ IsCont(c(3))
                                  /\ Utf8From(s, i + 4)
             ELSE IF b = 244 THEN c(1) >= 128 /\ c(1) <= 143 /\ IsCont(c(2)) /\ IsCont(c(3))
                                  /\ Utf8From(s, i + 4)
             ELSE FALSE

IsUtf8(s) == Utf8From(s, 1)

lsb_decode(image) ==
    LET bytes == ExtractBytes(image)
    IN  IF IsUtf8(bytes) THEN Ok(bytes)
        ELSE Err("DecodingError", "Failed to decode message")

\* ------------------------------------------------------------------------
\* base64 (STANDARD engine: canonical, padded)
\* ------------------------------------------------------------------------
B64Char(v) ==
    IF v < 26 THEN 65 + v
    ELSE IF v < 52 THEN 97 + (v - 26)
    ELSE IF v < 62 THEN 48 + (v - 52)
    ELSE IF v = 62 THEN 43 ELSE 47

B64Val(c) ==
    IF c >= 65 /\ c <= 90 THEN c - 65
    ELSE IF c >= 97 /\ c <= 122 THEN c - 97 + 26
    ELSE IF c >= 48 /\ c <= 57 THEN c - 48 + 52
    ELSE IF c = 43 THEN 62
    ELSE IF c = 47 THEN 63 ELSE -1

B64Pad == 61

B64Encode(bytes) ==
    LET n == Len(bytes)
        at(k) == IF k <= n THEN bytes[k] ELSE 0
        group(g) == at(3 * g + 1) * 65536 + at(3 * g + 2) * 256 + at(3 * g + 3)
    IN  [j \in 1..(4 * ((n + 2) \div 3)) |->
            LET g == (j - 1) \div 4
                pos == (j - 1) % 4
            IN  IF pos = 2 /\ 3 * g + 2 > n THEN B64Pad
                ELSE IF pos = 3 /\ 3 * g + 3 > n THEN B64Pad
                ELSE B64Char((group(g) \div (64 ^ (3 - pos))) % 64)]

B64Decode(s) ==
    LET n == Len(s)
        pad == IF n > 0 /\ s[n] = B64Pad
               THEN (IF n > 1 /\ s[n - 1] = B64Pad THEN 2 ELSE 1)
               ELSE 0
        sextet(k) == IF s[k] = B64Pad THEN 0 ELSE B64Val(s[k])
        group(g) == sextet(4 * g + 1) * 262144 + sextet(4 * g + 2) * 4096
                    + sextet(4 * g + 3) * 64 + sextet(4 * g + 4)
        bytes == [j \in 1..((n \div 4) * 3 - pad) |->
                    (group((j - 1) \div 3) \div (256 ^ (2 - ((j - 1) % 3)))) % 256]
    IN  IF n % 4 # 0 THEN Err("Base64", "invalid length")
        ELSE IF \E k \in 1..(n - pad) : B64Val(s[k]) < 0 THEN Err("Base64", "invalid byte")
        ELSE IF B64Encode(bytes) # s THEN Err("Base64", "invalid padding")
        ELSE Ok(bytes)

\* ------------------------------------------------------------------------
\* core/compression.rs (zlib stream: header, body, Adler-32 trailer)
\* ------------------------------------------------------------------------
Adler32(data) ==
    LET n == Len(data)
        A[i \in 0..n] == IF i = 0 THEN 1 ELSE (A[i - 1] + data[i]) % 65521
        B[i \in 0..n] == IF i = 0 THEN 0 ELSE (B[i - 1] + A[i]) % 65521
    IN  <<B[n] \div 256, B[n] % 256, A[n] \div 256, A[n] % 256>>

ZlibHeader == <<120, 156>>

compress(data) == Ok(ZlibHeader \o data \o Adler32(data))

decompress(data) ==
    LET n == Len(data)
        body == SubSeq(data, 3, n - 4)
    IN  IF n < 6 \/ SubSeq(data, 1, 2) # ZlibHeader
        THEN Err("IoError", "corrupt deflate stream")
        ELSE IF SubSeq(data, n - 3, n) # Adler32(body)
        THEN Err("IoError", "corrupt deflate stream")
        ELSE Ok(body)

\* ------------------------------------------------------------------------
\* cryptography/util.rs
\* ------------------------------------------------------------------------
KEY_SIZE == 32

key_to_bytes_truncating(key) ==
    Ok([i \in 1..KEY_SIZE |-> IF i <= Len(key) THEN key[i] ELSE 0])

key_to_bytes(key) ==
    IF Len(key) > KEY_SIZE
    THEN Err("EncryptionError", "Key length exceeds maximum")
    ELSE Ok([i \in 1..KEY_SIZE |-> IF i <= Len(key) THEN key[i] ELSE 0])

\* ------------------------------------------------------------------------
\* cryptography/aes.rs (AES-256-GCM as a keyed stream cipher with a tag)
\* ------------------------------------------------------------------------
NONCE_SIZE == 12

TAG_SIZE == 16

KeyStream(key, nonce, i) ==
    (7 * key[((i - 1) % KEY_SIZE) + 1] + 13 * nonce[((i - 1) % NONCE_SIZE) + 1] + 31 * i
       + key[1] + 3 * key[2]) % 256

SumSeq(s) ==
    LET S[i \in 0..Len(s)] == IF i = 0 THEN 0 ELSE S[i - 1] + s[i]
    IN  S[Len(s)]

GcmTag(key, nonce, ct) ==
    [t \in 1..TAG_SIZE |->
        (key[t] + 3 * key[t + 16] + 5 * nonce[((t - 1) % NONCE_SIZE) + 1]
           + 7 * SumSeq(ct) + 11 * Len(ct) + t) % 256]

GcmEncrypt(key, nonce, pt) ==
    LET ct == [i \in 1..Len(pt) |-> (pt[i] + KeyStream(key, nonce, i)) % 256]
    IN  ct \o GcmTag(key, nonce, ct)

GcmDecrypt(key, nonce, sealed) ==
    LET n == Len(sealed) - TAG_SIZE
        ct == SubSeq(sealed, 1, n)
    IN  IF n < 0 THEN Err("aead", "too short")
        ELSE IF SubSeq(sealed, n + 1, n + TAG_SIZE) # GcmTag(key, nonce, ct)
        THEN Err("aead", "tag mismatch")
        ELSE Ok([i \in 1..n |-> (ct[i] + 256 - KeyStream(key, nonce, i)) % 256])

aes_encrypt_no_nonce(data, key, nonce) ==
    Ok(B64Encode(GcmEncrypt(key, nonce, data)))

aes_encrypt(data, key, nonce) ==
    Ok(B64Encode(nonce \o GcmEncrypt(key, nonce, data)))

aes_decrypt_unverified(encoded_data, key) ==
    LET decoded == B64Decode(encoded_data)
    IN  IF decoded.kind # "Ok"
        THEN Err("DecryptionError", "Failed to decode base64 data")
        ELSE IF Len(decoded.val) < NONCE_SIZE
        THEN Panic("split_at: mid > len")
        ELSE LET nonce == SubSeq(decoded.val, 1, NONCE_SIZE)
                 n == Len(decoded.val) - NONCE_SIZE - TAG_SIZE
                 plain == [i \in 1..n |->
                              (decoded.val[NONCE_SIZE + i] + 256 - KeyStream(key, nonce, i)) % 256]
             IN  IF n < 0 THEN Err("DecryptionError", "Decryption failed")
                 ELSE IF ~IsUtf8(plain)
                 THEN Err("DecryptionError", "Invalid UTF-8 sequence in decrypted data")
                 ELSE Ok(plain)

aes_decrypt(encoded_data, key) ==
    LET decoded == B64Decode(encoded_data)
    IN  IF decoded.kind # "Ok"
        THEN Err("DecryptionError", "Failed to decode base64 data")
        ELSE IF Len(decoded.val) < NONCE_SIZE
        THEN Panic("split_at: mid > len")
        ELSE LET nonce == SubSeq(decoded.val, 1, NONCE_SIZE)
                 ciphertext == SubSeq(decoded.val, NONCE_SIZE + 1, Len(decoded.val))
                 decrypted == GcmDecrypt(key, nonce, ciphertext)
             IN  IF decrypted.kind # "Ok"
                 THEN Err("DecryptionError", "Decryption failed")
                 ELSE IF ~IsUtf8(decrypted.val)
                 THEN Err("DecryptionError", "Invalid UTF-8 sequence in decrypted data")
                 ELSE Ok(decrypted.val)

\* ------------------------------------------------------------------------
\* Paths and files
\* ------------------------------------------------------------------------
\* a path is a stem and its dot-separated suffixes; format!("{}.png", p)
\* appends a suffix
Path(stem, exts) == [stem |-> stem, exts |-> exts]

AddExt(path, ext) == [path EXCEPT !.exts = Append(path.exts, ext)]

Extension(path) == IF path.exts = <<>> THEN "" ELSE path.exts[Len(path.exts)]

DataPath == Path("data", <<"txt">>)

CarrierPng == Path("carrier", <<"png">>)

CarrierJpg == Path("carrier", <<"jpg">>)

OutPng == Path("out", <<"png">>)

OutBare == Path("out", <<>>)

StegoPng == Path("stego", <<"png">>)

DecodedTxt == Path("decoded", <<"txt">>)

AllPaths ==
    {DataPath, CarrierPng, CarrierJpg, OutPng, OutBare, AddExt(OutPng, "png"), StegoPng, DecodedTxt}

NoFile == [kind |-> "none", image |-> NoImage, text |-> <<>>]

ImageFile(image) == [kind |-> "image", image |-> image, text |-> <<>>]

TextFile(text) == [kind |-> "text", image |-> NoImage, text |-> text]

\* ------------------------------------------------------------------------
\* core/image.rs, core/file.rs
\* ------------------------------------------------------------------------
has_valid_image_extension(file_path) ==
    Extension(file_path) \in {"png", "jpg", "jpeg", "bmp", "tiff", "gif"}

is_lossless(file_path) ==
    LET ext == Extension(file_path)
    IN  IF ext \in {"png", "bmp", "tiff"} THEN Ok(TRUE)
        ELSE IF ext \in {"jpg", "jpeg", "gif", "webp"} THEN Ok(FALSE)
        ELSE Err("InvalidPathError", "Unsupported image format")

load_image(fs, file_path) ==
    IF fs[file_path].kind = "none" THEN Err("IoError", "No such file or directory")
    ELSE IF fs[file_path].kind # "image" THEN Err("ImageError", "cannot decode")
    ELSE Ok(fs[file_path].image)

\* the file system after the call, and the call's result
write_image_file(fs, image, file_path) ==
    IF Extension(file_path) \notin {"png", "jpg", "jpeg", "bmp", "tiff", "gif", "webp"}
    THEN [res |-> Err("ImageError", "unsupported format"), fs |-> fs, written |-> <<>>]
    ELSE [res |-> Ok(<<>>), fs |-> [fs EXCEPT ![file_path] = ImageFile(image)],
          written |-> <<file_path>>]

convert_to_lossless(fs, file_path, output_path) ==
    LET image == load_image(fs, file_path)
    IN  IF image.kind # "Ok" THEN [res |-> image, fs |-> fs, written |-> <<>>]
        ELSE [res |-> image, fs |-> [fs EXCEPT ![output_path] = ImageFile(image.val)],
              written |-> <<output_path>>]

read_text(fs, file_path) ==
    IF fs[file_path].kind = "none" THEN Err("IoError", "No such file or directory")
    ELSE IF fs[file_path].kind # "text" \/ ~IsUtf8(fs[file_path].text)
    THEN Err("IoError", "stream did not contain valid UTF-8")
    ELSE Ok(fs[file_path].text)

write_text(fs, text, file_path) ==
    [res |-> Ok(<<>>), fs |-> [fs EXCEPT ![file_path] = TextFile(text)],
     written |-> <<file_path>>]

\* ------------------------------------------------------------------------
\* core/operations.rs: the stages of encode and decode
\* ------------------------------------------------------------------------
NoKey == [some |-> FALSE, val |-> <<>>]

SomeKey(k) == [some |-> TRUE, val |-> k]

\* "COMPRESSED:"
Marker == <<67, 79, 77, 80, 82, 69, 83, 83, 69, 68, 58>>

StartsWith(s, prefix) ==
    Len(s) >= Len(prefix) /\ SubSeq(s, 1, Len(prefix)) = prefix

\* the order in which encode runs its stages
EncStageOrder_compress_first == <<"load", "read", "compress", "encrypt", "embed", "save">>

EncStageOrder == <<"load", "read", "encrypt", "compress", "embed", "save">>

\* the order in which decode runs its stages
DecStageOrder_decompress_first == <<"load", "extract", "decompress", "decrypt", "save">>

DecStageOrder == <<"load", "extract", "decrypt", "decompress", "save">>

After(order, stage) ==
    LET i == CHOOSE k \in 1..Len(order) : order[k] = stage
    IN  IF i < Len(order) THEN order[i + 1] ELSE "done"

\* if let Some(key) = key { key_to_bytes(&key)?; aes::encrypt(&data, &key_bytes)? }
encrypt_stage(data, key, nonce) ==
    LET key_bytes == key_to_bytes(key)
    IN  IF key_bytes.kind # "Ok" THEN key_bytes
        ELSE aes_encrypt(data, key_bytes.val, nonce)

\* if compress { format!("COMPRESSED:{}", base64(compress(data)?)) }
frame_raw(data) ==
    LET compressed_data == compress(data)
    IN  IF compressed_data.kind # "Ok" THEN compressed_data
        ELSE Ok(Marker \o compressed_data.val)

frame(data) ==
    LET compressed_data == compress(data)
    IN  IF compressed_data.kind # "Ok" THEN compressed_data
        ELSE Ok(Marker \o B64Encode(compressed_data.val))

\* lsb::encode(&data, &mut image)?; the image the call returns is dropped
ImageAfterEmbed(image, encoded_image) == image

decrypt_stage(decoded_message, key) ==
    LET key_bytes == key_to_bytes(key)
    IN  IF key_bytes.kind # "Ok" THEN key_bytes
        ELSE aes_decrypt(decoded_message, key_bytes.val)

\* the decompress branch of decode
unframe_lenient(decoded_message) ==
    IF ~StartsWith(decoded_message, Marker) THEN Ok(decoded_message)
    ELSE LET compressed_data == B64Decode(SubSeq(decoded_message, Len(Marker) + 1, Len(decoded_message)))
         IN  IF compressed_data.kind # "Ok" THEN Err("DecodingError", "Base64 decoding failed")
             ELSE decompress(compressed_data.val)

unframe(decoded_message) ==
    IF ~StartsWith(decoded_message, Marker)
    THEN Err("DecodingError", "Decompression expected, but message is not compressed")
    ELSE LET base64_data == SubSeq(decoded_message, Len(Marker) + 1, Len(decoded_message))
             compressed_data == B64Decode(base64_data)
         IN  IF compressed_data.kind # "Ok"
             THEN Err("DecodingError", "Base64 decoding failed")
             ELSE LET inflated == decompress(compressed_data.val)
                  IN  IF inflated.kind # "Ok" THEN inflated
                      ELSE IF ~IsUtf8(inflated.val)
                      THEN Err("DecodingError", "UTF-8 decoding failed")
                      ELSE Ok(inflated.val)

\* the else-if branch of decode
reject_framed_lenient(decoded_message) == Ok(decoded_message)

reject_framed(decoded_message) ==
    IF StartsWith(decoded_message, Marker)
    THEN Err("DecodingError", "Data is compressed but decompression was not requested")
    ELSE Ok(decoded_message)

\* progress notifications
Update(op, message) == [op |-> op, call |-> "update", msg |-> message]

Finish(op, message) == [op |-> op, call |-> "finish_with_message", msg |-> message]

\* ------------------------------------------------------------------------
\* Inputs of the pure LSB operations
\* ------------------------------------------------------------------------
\* carrier contents: blank, saturated, a ramp, and one whose low bits spell
\* the letter 'A' over and over
FillOf(name, i) ==
    CASE name = "blank" -> 0
      [] name = "white" -> 255
      [] name = "ramp" -> (i * 37 + 11) % 256
      [] OTHER -> 2 * ((i * 5) % 128) + Bit(65, 7 - ((i - 1) % 8))

FillNames == {"blank", "white", "ramp", "lettered"}

LsbDims == {<<w, h>> \in (0..MaxLsbPixels) \X (0..3) : w * h <= MaxLsbPixels}

LsbCarriers ==
    {[width |-> d[1], height |-> d[2],
      data |-> [i \in 1..(d[1] * d[2] * 3) |-> FillOf(f, i)]] : d \in LsbDims, f \in FillNames}

\* text bytes: NUL, two letters and the two bytes of U+00E9
LsbBytes == {0, 65, 122}

RECURSIVE SeqsUpTo(_, _)
SeqsUpTo(S, n) ==
    IF n = 0 THEN {<<>>}
    ELSE LET shorter == SeqsUpTo(S, n - 1)
         IN  shorter \cup {Append(s, x) : s \in {t \in shorter : Len(t) = n - 1}, x \in S}

LsbTexts == SeqsUpTo(LsbBytes, MaxLsbText) \cup {<<195, 169>>, <<65, 195, 169>>}

\* ------------------------------------------------------------------------
\* Inputs of the pipeline
\* ------------------------------------------------------------------------
\* payload texts: "A", "hi", "A\0B" and a text that begins with the marker
Payloads == {<<65>>, <<104, 105>>, <<65, 0, 66>>, Marker \o <<120>>}

\* a carrier too small for anything and one that holds every framed text
PipeCarriers ==
    {[width |-> 2, height |-> 2, data |-> [i \in 1..12 |-> FillOf("blank", i)]]}
    \cup {[width |-> 21, height |-> 10, data |-> [i \in 1..630 |-> FillOf(f, i)]] :
             f \in {"blank", "lettered"}}

\* passphrases "k" and "j", and one of 33 bytes
PassK == <<107>>

PassJ == <<106>>

PassLong == [i \in 1..33 |-> 97]

Nonces == {[i \in 1..NONCE_SIZE |-> 0], [i \in 1..NONCE_SIZE |-> (17 * i) % 256]}

\* ------------------------------------------------------------------------
\* Inputs of the codec operations (key derivation, AEAD envelope, framing)
\* ------------------------------------------------------------------------
\* passphrases: "", "k", "k\0", U+1F511, one of exactly 32 bytes, one of 33
PassK0 == PassK \o <<0>>

PassUnicode == <<240, 159, 148, 145>>

PassExact == [i \in 1..KEY_SIZE |-> 97]

CodecPasses == {<<>>, PassK, PassK0, PassUnicode, PassExact, PassLong}

\* texts: "", "A", "hi", U+00E9, "A\0B", and two byte strings that are not UTF-8
CodecTexts == {<<>>, <<65>>, <<104, 105>>, <<195, 169>>, <<65, 0, 66>>, <<255>>, <<65, 200>>}

\* ------------------------------------------------------------------------
\* State
\* ------------------------------------------------------------------------
VARIABLES
    l_pc,        \* position of the LSB exerciser
    l_data,      \* text handed to lsb::encode / is_sufficient_capacity
    l_image,     \* the caller's carrier
    l_carrier0,  \* the carrier as it was before the call
    l_cap,       \* last value returned by is_sufficient_capacity
    l_encoded,   \* result of lsb::encode
    l_decoded,   \* result of lsb::decode
    files,       \* the file system: path -> content
    writes,      \* paths written so far, in order
    progress,    \* calls received by the progress sink, in order
    e_pc,        \* operations::encode: stage about to run
    e_args,      \* its arguments
    e_image,     \* its local `image`
    e_data,      \* its local `data`
    e_plain,     \* the text it read from the data file
    e_log,       \* the transformations it applied: stage, input, output
    e_result,    \* its return value
    d_pc,        \* operations::decode: stage about to run
    d_args,      \* its arguments
    d_image,     \* its local `image`
    d_msg,       \* its local `decoded_message`
    d_log,       \* the transformations it attempted: stage, input, output
    d_result,    \* its return value
    c_pc,        \* position of the codec exerciser
    c_pass,      \* a passphrase
    c_key,       \* result of key_to_bytes on it
    c_text,      \* a text
    c_blob,      \* the text handed to aes::decrypt or to the unframing steps
    c_how,       \* how that text came about
    c_out,       \* result of the last call
    t_state,     \* App.state
    t_operation, \* App.operation
    t_menu,      \* App.selected_menu
    t_data,      \* App.data_path is Some
    t_carrier,   \* App.carrier_path is Some
    t_output,    \* App.output_path
    t_key,       \* length of App.encryption_key (0: None)
    t_shared,    \* every ProgressState allocated so far; the last is App.progress_state
    t_workers,   \* every worker thread spawned so far
    k_pc,        \* position of the capacity exerciser
    k_width,     \* image.width(), a u32 as four base-256 digits, lowest first
    k_height,    \* image.height()
    k_len,       \* text.len(), a usize as eight digits
    k_bits,      \* result of image_capacity_bits
    k_ok         \* result of the old is_sufficient_capacity

lvars == <<l_pc, l_data, l_image, l_carrier0, l_cap, l_encoded, l_decoded>>

fvars == <<files, writes, progress>>

evars == <<e_pc, e_args, e_image, e_data, e_plain, e_log, e_result>>

dvars == <<d_pc, d_args, d_image, d_msg, d_log, d_result>>

cvars == <<c_pc, c_pass, c_key, c_text, c_blob, c_how, c_out>>

tvars == <<t_state, t_operation, t_menu, t_data, t_carrier, t_output, t_key, t_shared, t_workers>>

kvars == <<k_pc, k_width, k_height, k_len, k_bits, k_ok>>

vars == <<lvars, fvars, evars, dvars, cvars, tvars, kvars>>

NoEncArgs ==
    [data_path |-> DataPath, carrier_path |-> CarrierPng, output_path |-> OutPng,
     key |-> NoKey, compress |-> FALSE]

NoDecArgs ==
    [carrier_path |-> OutPng, output_path |-> DecodedTxt, key |-> NoKey, decompress |-> FALSE]

LsbIdle ==
    /\ l_pc = "off"
    /\ l_data = <<>>
    /\ l_image = NoImage
    /\ l_carrier0 = NoImage
    /\ l_cap = "unset"
    /\ l_encoded = NoResult
    /\ l_decoded = NoResult

PipelineIdle ==
    /\ writes = <<>>
    /\ progress = <<>>
    /\ e_pc = "idle"
    /\ e_args = NoEncArgs
    /\ e_image = NoImage
    /\ e_data = <<>>
    /\ e_plain = <<>>
    /\ e_log = <<>>
    /\ e_result = NoResult
    /\ d_pc = "idle"
    /\ d_args = NoDecArgs
    /\ d_image = NoImage
    /\ d_msg = <<>>
    /\ d_log = <<>>
    /\ d_result = NoResult

CodecIdle ==
    /\ c_pc = "off"
    /\ c_pass = <<>>
    /\ c_key = NoResult
    /\ c_text = <<>>
    /\ c_blob = <<>>
    /\ c_how = "none"
    /\ c_out = NoResult

CapacityIdle ==
    /\ k_pc = "off"
    /\ k_width = <<0, 0, 0, 0>>
    /\ k_height = <<0, 0, 0, 0>>
    /\ k_len = <<0, 0, 0, 0, 0, 0, 0, 0>>
    /\ k_bits = NoResult
    /\ k_ok = "unset"

TuiIdle ==
    /\ t_state = "off"
    /\ t_operation = "None"
    /\ t_menu = 0
    /\ t_data = FALSE
    /\ t_carrier = FALSE
    /\ t_output = "None"
    /\ t_key = 0
    /\ t_shared = <<>>
    /\ t_workers = <<>>

\* ------------------------------------------------------------------------
\* The pure LSB operations applied to drawn inputs
\* ------------------------------------------------------------------------
LsbInit ==
    /\ l_pc = "start"
    /\ l_data \in LsbTexts
    /\ l_image \in LsbCarriers
    /\ l_carrier0 = l_image
    /\ l_cap = "unset"
    /\ l_encoded = NoResult
    /\ l_decoded = NoResult
    /\ files = [p \in AllPaths |-> NoFile]
    /\ PipelineIdle
    /\ CapacityIdle
    /\ CodecIdle
    /\ TuiIdle

\* is_sufficient_capacity(text, image) called directly on the text
LsbCheckCapacity ==
    /\ l_pc = "start"
    /\ l_cap' = is_sufficient_capacity(l_data, l_image)
    /\ l_pc' = "checked"
    /\ UNCHANGED <<l_data, l_image, l_carrier0, l_encoded, l_decoded, fvars, evars, dvars, cvars, tvars, kvars>>

\* lsb::encode(data, &image): the carrier is borrowed immutably
LsbEncode ==
    /\ l_pc \in {"start", "checked"}
    /\ l_encoded' = lsb_encode(l_data, l_image)
    /\ l_pc' = "encoded"
    /\ UNCHANGED <<l_data, l_image, l_carrier0, l_cap, l_decoded, fvars, evars, dvars, cvars, tvars, kvars>>

\* lsb::decode on the image lsb::encode returned
LsbDecode ==
    /\ l_pc = "encoded"
    /\ l_encoded.kind = "Ok"
    /\ l_decoded' = lsb_decode(l_encoded.val)
    /\ l_pc' = "decoded"
    /\ UNCHANGED <<l_data, l_image, l_carrier0, l_cap, l_encoded, fvars, evars, dvars, cvars, tvars, kvars>>

\* lsb::decode on a carrier nothing was embedded in
LsbDecodeRaw ==
    /\ l_pc \in {"start", "checked"}
    /\ l_decoded' = lsb_decode(l_image)
    /\ l_pc' = "decoded_raw"
    /\ UNCHANGED <<l_data, l_image, l_carrier0, l_cap, l_encoded, fvars, evars, dvars, cvars, tvars, kvars>>

\* lsb::decode on the image lsb::encode returned, after every channel byte
\* behind the first embedded zero byte has been overwritten
LsbDecodeScribbled ==
    /\ l_pc = "encoded"
    /\ l_encoded.kind = "Ok"
    /\ \E f \in FillNames :
          LET embedded == l_data \o <<0>>
              z == CHOOSE k \in 1..Len(embedded) :
                      embedded[k] = 0 /\ \A m \in 1..(k - 1) : embedded[m] # 0
              scribbled == [l_encoded.val EXCEPT !.data =
                              [i \in 1..Len(l_encoded.val.data) |->
                                  IF i <= 8 * z THEN l_encoded.val.data[i] ELSE FillOf(f, i)]]
          IN  l_decoded' = lsb_decode(scribbled)
    /\ l_pc' = "decoded_scribbled"
    /\ UNCHANGED <<l_data, l_image, l_carrier0, l_cap, l_encoded, fvars, evars, dvars, cvars, tvars, kvars>>

LsbNext == LsbCheckCapacity \/ LsbEncode \/ LsbDecode \/ LsbDecodeRaw \/ LsbDecodeScribbled

SpecLsb == LsbInit /\ [][LsbNext]_vars

\* ------------------------------------------------------------------------
\* operations::encode
\* ------------------------------------------------------------------------
Init ==
    /\ LsbIdle
    /\ PipelineIdle
    /\ CapacityIdle
    /\ CodecIdle
    /\ TuiIdle
    /\ \E p \in Payloads, c \in PipeCarriers :
          files = [q \in AllPaths |->
                      IF q = DataPath THEN TextFile(p)
                      ELSE IF q \in {CarrierPng, CarrierJpg} THEN ImageFile(c)
                      ELSE NoFile]

EncodeStart ==
    /\ e_pc = "idle"
    /\ \E key \in {NoKey, SomeKey(PassK), SomeKey(PassLong)}, compress_flag \in BOOLEAN,
          carrier_path \in {CarrierPng, CarrierJpg}, output_path \in {OutPng, OutBare} :
          e_args' = [data_path |-> DataPath, carrier_path |-> carrier_path,
                     output_path |-> output_path, key |-> key, compress |-> compress_flag]
    /\ e_pc' = EncStageOrder[1]
    /\ UNCHANGED <<e_image, e_data, e_plain, e_log, e_result, fvars, dvars, lvars, cvars, tvars, kvars>>

\* progress.update("Loading carrier image..."); load a lossless carrier, or
\* convert a lossy one to "<output>.png" and load that
EncLoad ==
    /\ e_pc = "load"
    /\ progress' = Append(progress, Update("encode", "Loading carrier image..."))
    /\ LET lossless == is_lossless(e_args.carrier_path)
           temp_output == AddExt(e_args.output_path, "png")
           conv == IF lossless.kind = "Ok" /\ ~lossless.val
                   THEN convert_to_lossless(files, e_args.carrier_path, temp_output)
                   ELSE [res |-> Ok(<<>>), fs |-> files, written |-> <<>>]
           image == IF lossless.kind # "Ok" THEN lossless
                    ELSE IF lossless.val THEN load_image(files, e_args.carrier_path)
                    ELSE IF conv.res.kind # "Ok" THEN conv.res
                    ELSE load_image(conv.fs, temp_output)
       IN  /\ files' = conv.fs
           /\ writes' = writes \o conv.written
           /\ IF image.kind = "Ok"
              THEN e_image' = image.val /\ e_pc' = After(EncStageOrder, "load")
                   /\ e_result' = e_result
              ELSE e_image' = e_image /\ e_pc' = "done" /\ e_result' = image
    /\ UNCHANGED <<e_args, e_data, e_plain, e_log, dvars, lvars, cvars, tvars, kvars>>

\* progress.update("Reading data file..."); read_text(&data_path)?
EncRead ==
    /\ e_pc = "read"
    /\ progress' = Append(progress, Update("encode", "Reading data file..."))
    /\ LET data == read_text(files, e_args.data_path)
       IN  IF data.kind = "Ok"
           THEN e_data' = data.val /\ e_plain' = data.val
                /\ e_pc' = After(EncStageOrder, "read") /\ e_result' = e_result
           ELSE e_data' = e_data /\ e_plain' = e_plain /\ e_pc' = "done" /\ e_result' = data
    /\ UNCHANGED <<e_args, e_image, e_log, files, writes, dvars, lvars, cvars, tvars, kvars>>

\* if let Some(key) = key { update("Encrypting data..."); encrypt } else { data }
EncEncrypt ==
    /\ e_pc = "encrypt"
    /\ IF e_args.key.some
       THEN /\ progress' = Append(progress, Update("encode", "Encrypting data..."))
            /\ \E nonce \in Nonces :
                  LET encrypted == encrypt_stage(e_data, e_args.key.val, nonce)
                  IN  IF encrypted.kind = "Ok"
                      THEN /\ e_data' = encrypted.val
                           /\ e_log' = Append(e_log, [stage |-> "encrypt", input |-> e_data,
                                                      output |-> encrypted.val])
                           /\ e_pc' = After(EncStageOrder, "encrypt")
                           /\ e_result' = e_result
                      ELSE /\ e_data' = e_data /\ e_log' = e_log
                           /\ e_pc' = "done" /\ e_result' = encrypted
       ELSE /\ e_pc' = After(EncStageOrder, "encrypt")
            /\ UNCHANGED <<progress, e_data, e_log, e_result>>
    /\ UNCHANGED <<e_args, e_image, e_plain, files, writes, dvars, lvars, cvars, tvars, kvars>>

\* if compress { update("Compressing data..."); data = "COMPRESSED:" + base64 }
EncCompress ==
    /\ e_pc = "compress"
    /\ IF e_args.compress
       THEN /\ progress' = Append(progress, Update("encode", "Compressing data..."))
            /\ LET framed == frame(e_data)
               IN  IF framed.kind = "Ok"
                   THEN /\ e_data' = framed.val
                        /\ e_log' = Append(e_log, [stage |-> "compress", input |-> e_data,
                                                   output |-> framed.val])
                        /\ e_pc' = After(EncStageOrder, "compress")
                        /\ e_result' = e_result
                   ELSE /\ e_data' = e_data /\ e_log' = e_log
                        /\ e_pc' = "done" /\ e_result' = framed
       ELSE /\ e_pc' = After(EncStageOrder, "compress")
            /\ UNCHANGED <<progress, e_data, e_log, e_result>>
    /\ UNCHANGED <<e_args, e_image, e_plain, files, writes, dvars, lvars, cvars, tvars, kvars>>

\* progress.update("Encoding data into image..."); lsb::encode(&data, &mut image)?;
EncEmbed ==
    /\ e_pc = "embed"
    /\ progress' = Append(progress, Update("encode", "Encoding data into image..."))
    /\ LET encoded == lsb_encode(e_data, e_image)
       IN  IF encoded.kind = "Ok"
           THEN /\ e_image' = ImageAfterEmbed(e_image, encoded.val)
                /\ e_log' = Append(e_log, [stage |-> "embed", input |-> e_data,
                                           output |-> encoded.val])
                /\ e_pc' = After(EncStageOrder, "embed")
                /\ e_result' = e_result
           ELSE /\ e_image' = e_image /\ e_log' = e_log
                /\ e_pc' = "done" /\ e_result' = encoded
    /\ UNCHANGED <<e_args, e_data, e_plain, files, writes, dvars, lvars, cvars, tvars, kvars>>

\* the path encode saves to
FinalOutputPath(output_path) ==
    IF ~has_valid_image_extension(output_path) THEN AddExt(output_path, "png")
    ELSE output_path

\* progress.update("Saving encoded image..."); write_image_file(&image, &output_path)?;
\* progress.finish_with_message(..); Ok(())
EncSave ==
    /\ e_pc = "save"
    /\ LET output_path == FinalOutputPath(e_args.output_path)
           saved == write_image_file(files, e_image, output_path)
       IN  /\ files' = saved.fs
           /\ writes' = writes \o saved.written
           /\ IF saved.res.kind = "Ok"
              THEN /\ progress' = progress \o
                         <<Update("encode", "Saving encoded image..."),
                           Finish("encode", "Encoding completed successfully")>>
                   /\ e_result' = Ok(<<>>)
              ELSE /\ progress' = Append(progress, Update("encode", "Saving encoded image..."))
                   /\ e_result' = saved.res
    /\ e_pc' = "done"
    /\ UNCHANGED <<e_args, e_image, e_data, e_plain, e_log, dvars, lvars, cvars, tvars, kvars>>

\* a stego image made by saving what lsb::encode returns for encode's text
EnvEmbed ==
    /\ e_pc = "done"
    /\ d_pc = "idle"
    /\ files[StegoPng].kind = "none"
    /\ \E i \in 1..Len(e_log) :
          /\ e_log[i].stage = "embed"
          /\ files' = [files EXCEPT ![StegoPng] = ImageFile(e_log[i].output)]
    /\ UNCHANGED <<writes, progress, evars, dvars, lvars, cvars, tvars, kvars>>

\* ------------------------------------------------------------------------
\* operations::decode
\* ------------------------------------------------------------------------
DecodeStart ==
    /\ e_pc = "done"
    /\ d_pc = "idle"
    /\ \E key \in {NoKey, SomeKey(PassK), SomeKey(PassJ), SomeKey(PassLong)},
          decompress_flag \in BOOLEAN, carrier_path \in {OutPng, StegoPng} :
          d_args' = [carrier_path |-> carrier_path, output_path |-> DecodedTxt,
                     key |-> key, decompress |-> decompress_flag]
    /\ d_pc' = DecStageOrder[1]
    /\ UNCHANGED <<d_image, d_msg, d_log, d_result, fvars, evars, lvars, cvars, tvars, kvars>>

\* progress.update("Loading carrier image..."); load_image(&carrier_path)?
DecLoad ==
    /\ d_pc = "load"
    /\ progress' = Append(progress, Update("decode", "Loading carrier image..."))
    /\ LET image == load_image(files, d_args.carrier_path)
       IN  IF image.kind = "Ok"
           THEN d_image' = image.val /\ d_pc' = After(DecStageOrder, "load")
                /\ d_result' = d_result
           ELSE d_image' = d_image /\ d_pc' = "done" /\ d_result' = image
    /\ UNCHANGED <<d_args, d_msg, d_log, files, writes, evars, lvars, cvars, tvars, kvars>>

\* progress.update("Decoding data from image..."); lsb::decode(&image)?
DecExtract ==
    /\ d_pc = "extract"
    /\ progress' = Append(progress, Update("decode", "Decoding data from image..."))
    /\ LET message == lsb_decode(d_image)
       IN  /\ d_log' = Append(d_log, [stage |-> "extract", input |-> <<>>, output |-> message])
           /\ IF message.kind = "Ok"
              THEN d_msg' = message.val /\ d_pc' = After(DecStageOrder, "extract")
                   /\ d_result' = d_result
              ELSE d_msg' = d_msg /\ d_pc' = "done" /\ d_result' = message
    /\ UNCHANGED <<d_args, d_image, files, writes, evars, lvars, cvars, tvars, kvars>>

\* if let Some(key) = key { update("Decrypting data..."); decrypt }
DecDecrypt ==
    /\ d_pc = "decrypt"
    /\ IF d_args.key.some
       THEN /\ progress' = Append(progress, Update("decode", "Decrypting data..."))
            /\ LET decrypted == decrypt_stage(d_msg, d_args.key.val)
               IN  /\ d_log' = Append(d_log, [stage |-> "decrypt", input |-> d_msg,
                                              output |-> decrypted])
                   /\ IF decrypted.kind = "Ok"
                      THEN d_msg' = decrypted.val /\ d_pc' = After(DecStageOrder, "decrypt")
                           /\ d_result' = d_result
                      ELSE d_msg' = d_msg /\ d_pc' = "done" /\ d_result' = decrypted
       ELSE /\ d_pc' = After(DecStageOrder, "decrypt")
            /\ UNCHANGED <<progress, d_msg, d_log, d_result>>
    /\ UNCHANGED <<d_args, d_image, files, writes, evars, lvars, cvars, tvars, kvars>>

\* if decompress { update("Decompressing data..."); unframe }
\* else if the marker is present { error }
DecDecompress ==
    /\ d_pc = "decompress"
    /\ IF d_args.decompress
       THEN /\ progress' = Append(progress, Update("decode", "Decompressing data..."))
            /\ LET unframed == unframe(d_msg)
               IN  /\ d_log' = Append(d_log, [stage |-> "decompress", input |-> d_msg,
                                              output |-> unframed])
                   /\ IF unframed.kind = "Ok"
                      THEN d_msg' = unframed.val /\ d_pc' = After(DecStageOrder, "decompress")
                           /\ d_result' = d_result
                      ELSE d_msg' = d_msg /\ d_pc' = "done" /\ d_result' = unframed
       ELSE /\ LET checked == reject_framed(d_msg)
               IN  /\ d_log' = Append(d_log, [stage |-> "check", input |-> d_msg,
                                              output |-> checked])
                   /\ IF checked.kind = "Ok"
                      THEN d_pc' = After(DecStageOrder, "decompress") /\ d_result' = d_result
                      ELSE d_pc' = "done" /\ d_result' = checked
            /\ UNCHANGED <<progress, d_msg>>
    /\ UNCHANGED <<d_args, d_image, files, writes, evars, lvars, cvars, tvars, kvars>>

\* progress.update("Saving decoded message..."); write_text(..)?;
\* progress.finish_with_message(..); Ok(())
DecSave ==
    /\ d_pc = "save"
    /\ LET saved == write_text(files, d_msg, d_args.output_path)
       IN  /\ files' = saved.fs
           /\ writes' = writes \o saved.written
           /\ d_result' = Ok(<<>>)
    /\ progress' = progress \o <<Update("decode", "Saving decoded message..."),
                                 Finish("decode", "Decoding completed successfully")>>
    /\ d_pc' = "done"
    /\ UNCHANGED <<d_args, d_image, d_msg, d_log, evars, lvars, cvars, tvars, kvars>>

Next ==
    \/ EncodeStart \/ EncLoad \/ EncRead \/ EncEncrypt \/ EncCompress \/ EncEmbed \/ EncSave
    \/ EnvEmbed
    \/ DecodeStart \/ DecLoad \/ DecExtract \/ DecDecrypt \/ DecDecompress \/ DecSave

Spec == Init /\ [][Next]_vars

\* ------------------------------------------------------------------------
\* The codec operations applied to drawn inputs
\* ------------------------------------------------------------------------
CodecInit ==
    /\ c_pc = "start"
    /\ c_pass \in CodecPasses
    /\ c_text \in CodecTexts
    /\ c_key = NoResult
    /\ c_blob = <<>>
    /\ c_how = "none"
    /\ c_out = NoResult
    /\ files = [p \in AllPaths |-> NoFile]
    /\ LsbIdle
    /\ PipelineIdle
    /\ CapacityIdle
    /\ TuiIdle

\* key_to_bytes(passphrase)
CodecDeriveKey ==
    /\ c_pc = "start"
    /\ c_key' = key_to_bytes(c_pass)
    /\ c_pc' = "keyed"
    /\ UNCHANGED <<c_pass, c_text, c_blob, c_how, c_out, lvars, fvars, evars, dvars, tvars, kvars>>

\* aes::encrypt(text, &key) with the nonce the generator happens to give
CodecEncrypt ==
    /\ c_pc = "keyed"
    /\ c_key.kind = "Ok"
    /\ IsUtf8(c_text)
    /\ \E nonce \in Nonces :
          LET encrypted == aes_encrypt(c_text, c_key.val, nonce)
          IN  c_out' = encrypted /\ c_blob' = encrypted.val
    /\ c_how' = "sealed"
    /\ c_pc' = "encrypted"
    /\ UNCHANGED <<c_pass, c_key, c_text, lvars, fvars, evars, dvars, tvars, kvars>>

\* a blob sealed under the same key over bytes that are not UTF-8
CodecSealBytes ==
    /\ c_pc = "keyed"
    /\ c_key.kind = "Ok"
    /\ ~IsUtf8(c_text)
    /\ \E nonce \in Nonces :
          c_blob' = B64Encode(nonce \o GcmEncrypt(c_key.val, nonce, c_text))
    /\ c_how' = "non_utf8"
    /\ c_pc' = "encrypted"
    /\ UNCHANGED <<c_pass, c_key, c_text, c_out, lvars, fvars, evars, dvars, tvars, kvars>>

\* the stored text is altered before it is decrypted: one byte of the blob
\* changed, the blob cut, or the base64 text damaged
CodecTamper ==
    /\ c_pc = "encrypted"
    /\ c_how = "sealed"
    /\ LET raw == B64Decode(c_blob).val
       IN  \/ /\ \E i \in {1, NONCE_SIZE + 1, Len(raw)} :
                    c_blob' = B64Encode([raw EXCEPT ![i] = (raw[i] + 1) % 256])
              /\ c_how' = "tampered"
           \/ /\ \E n \in {NONCE_SIZE, Len(raw) - 1} : c_blob' = B64Encode(SubSeq(raw, 1, n))
              /\ c_how' = "truncated"
           \/ /\ \E n \in {0, NONCE_SIZE - 1} : c_blob' = B64Encode(SubSeq(raw, 1, n))
              /\ c_how' = "short"
           \/ /\ \/ c_blob' = [c_blob EXCEPT ![1] = 58]
                 \/ c_blob' = SubSeq(c_blob, 1, Len(c_blob) - 1)
              /\ c_how' = "bad_base64"
    /\ UNCHANGED <<c_pc, c_pass, c_key, c_text, c_out, lvars, fvars, evars, dvars, tvars, kvars>>

\* aes::decrypt(blob, &key) with the key the blob was sealed under
CodecDecrypt ==
    /\ c_pc = "encrypted"
    /\ c_out' = aes_decrypt(c_blob, c_key.val)
    /\ c_pc' = "decrypted"
    /\ UNCHANGED <<c_pass, c_key, c_text, c_blob, c_how, lvars, fvars, evars, dvars, tvars, kvars>>

\* aes::decrypt(blob, &key2) with the key derived from another passphrase
CodecDecryptOther ==
    /\ c_pc = "encrypted"
    /\ c_how = "sealed"
    /\ \E other \in CodecPasses \ {c_pass} :
          LET key2 == key_to_bytes(other)
          IN  /\ key2.kind = "Ok"
              /\ c_out' = aes_decrypt(c_blob, key2.val)
              /\ c_how' = IF key2.val = c_key.val THEN "same_key" ELSE "wrong_key"
    /\ c_pc' = "decrypted"
    /\ UNCHANGED <<c_pass, c_key, c_text, c_blob, lvars, fvars, evars, dvars, tvars, kvars>>

\* the compress branch of encode applied to the text
CodecFrame ==
    /\ c_pc = "start"
    /\ LET framed == frame(c_text)
       IN  c_out' = framed /\ c_blob' = framed.val
    /\ c_how' = "framed"
    /\ c_pc' = "framed"
    /\ UNCHANGED <<c_pass, c_key, c_text, lvars, fvars, evars, dvars, tvars, kvars>>

\* the decompress branch of decode applied to the framed text
CodecUnframe ==
    /\ c_pc = "framed"
    /\ c_out' = unframe(c_blob)
    /\ c_pc' = "unframed"
    /\ UNCHANGED <<c_pass, c_key, c_text, c_blob, c_how, lvars, fvars, evars, dvars, tvars, kvars>>

CodecNext ==
    \/ CodecDeriveKey \/ CodecEncrypt \/ CodecSealBytes \/ CodecTamper
    \/ CodecDecrypt \/ CodecDecryptOther \/ CodecFrame \/ CodecUnframe

SpecCodec == CodecInit /\ [][CodecNext]_vars

\* ------------------------------------------------------------------------
\* Properties of the pure LSB operations (checked under SpecLsb)
\* ------------------------------------------------------------------------
Range(s) == {s[i] : i \in 1..Len(s)}

IsPrefix(s, t) == Len(s) <= Len(t) /\ s = SubSeq(t, 1, Len(s))

ChannelCount(image) == image.width * image.height * 3

\* C1 (as stated): whenever the capacity check accepts d plus its delimiter,
\* lsb::decode(lsb::encode(d, c)) returns exactly d, for every d and every c.
C1_RoundTripAnyPayload ==
    l_pc = "decoded" => (l_decoded.kind = "Ok" /\ l_decoded.val = l_data)

\* C1 (amended): whenever the capacity check accepts d plus its delimiter and
\* d contains no 0x00 byte, lsb::decode(lsb::encode(d, c)) returns exactly d,
\* whatever the carrier held before.
C1_RoundTripNulFree ==
    (l_pc = "decoded" /\ 0 \notin Range(l_data)) =>
        (l_decoded.kind = "Ok" /\ l_decoded.val = l_data)

C1_Witness ==
    /\ l_pc = "decoded"
    /\ Len(l_data) = 2
    /\ 0 \notin Range(l_data)
    /\ \E i \in 1..Len(l_image.data) : l_image.data[i] % 2 = 1
    /\ l_decoded.kind = "Ok"
    /\ l_decoded.val = l_data

\* C3: lsb::encode(p, c) succeeds exactly when the carrier has at least
\* (len(p)+1)*8 channel bytes and fails with an EncodingError when it has
\* fewer; the delimiter is counted once.
C3_CapacityBoundary ==
    l_pc = "encoded" =>
        IF ChannelCount(l_image) >= (Len(l_data) + 1) * 8
        THEN l_encoded.kind = "Ok"
        ELSE l_encoded.kind = "EncodingError"

C5_RejectBeforeWrite ==
    l_pc = "encoded" =>
        /\ (ChannelCount(l_image) < (Len(l_data) + 1) * 8 => l_encoded.kind = "EncodingError")
        /\ (l_image.width = 1 /\ l_image.height = 1 => l_encoded.kind = "EncodingError")
        /\ (l_encoded.kind # "Ok" =>
              /\ l_encoded = Err("EncodingError", "Image too small to encode data")
              /\ l_image = l_carrier0)

C5_Witness ==
    /\ l_pc = "encoded"
    /\ l_image.width = 1 /\ l_image.height = 1
    /\ Len(l_data) > 0
    /\ \E i \in 1..3 : l_image.data[i] # 0
    /\ l_encoded.kind = "EncodingError"
    /\ l_image = l_carrier0

\* ------------------------------------------------------------------------
\* Properties of operations::encode and operations::decode (checked under Spec)
\* ------------------------------------------------------------------------
EncodeOk == e_pc = "done" /\ e_result.kind = "Ok"

Stages(log) == {log[i].stage : i \in 1..Len(log)}

StageRank(stage) ==
    CASE stage = "encrypt" -> 1
      [] stage = "compress" -> 2
      [] OTHER -> 3

\* C2: in each of the configurations (no key, no compression), (key, no
\* compression), (no key, compression), decode run with the same key and
\* decompress = compress on the image file encode wrote writes exactly the
\* payload to its output.
C2_EndToEndRoundTrip ==
    ( /\ EncodeOk
      /\ d_pc = "done"
      /\ d_args.carrier_path = FinalOutputPath(e_args.output_path)
      /\ d_args.key = e_args.key
      /\ d_args.decompress = e_args.compress
      /\ ~(e_args.key.some /\ e_args.compress) )
    => (d_result.kind = "Ok" /\ files[d_args.output_path] = TextFile(e_plain))

\* C6: in decode, whenever decompression is requested, decryption is only
\* attempted after the compression frame has been removed.
C6_DecompressBeforeDecrypt ==
    \A i \in 1..Len(d_log) :
        (d_log[i].stage = "decrypt" /\ d_args.decompress)
            => \E j \in 1..(i - 1) : d_log[j].stage = "decompress"

\* C7: in encode, for every combination of key and compress flag, encryption
\* (if a key is given) is applied to the plaintext first, compression framing
\* (if requested) to the result of that step, and LSB embedding last, to the
\* result of the steps before it.
C7_EmbedOrdering ==
    /\ \A i, j \in 1..Len(e_log) :
          i < j => StageRank(e_log[i].stage) < StageRank(e_log[j].stage)
    /\ \A i \in 1..Len(e_log) :
          /\ e_log[i].input = (IF i = 1 THEN e_plain ELSE e_log[i - 1].output)
          /\ (e_log[i].stage = "encrypt" => e_args.key.some)
          /\ (e_log[i].stage = "compress" => e_args.compress)
          /\ (e_log[i].stage = "embed" =>
                /\ (e_args.key.some => "encrypt" \in Stages(e_log))
                /\ (e_args.compress => "compress" \in Stages(e_log))
                /\ e_log[i].input = e_data)

C7_Witness ==
    /\ Len(e_log) = 3
    /\ e_log[1].stage = "encrypt"
    /\ e_log[2].stage = "compress"
    /\ e_log[3].stage = "embed"
    /\ e_log[2].input = e_log[1].output
    /\ StartsWith(e_log[3].input, Marker)

\* C8: the text produced by encode's steps with key k and compress = true,
\* fed through decode's steps with the same key k and decompress = true,
\* yields the payload.
C8_KeyAndCompression ==
    ( /\ d_pc = "done"
      /\ d_args.carrier_path = StegoPng
      /\ files[StegoPng].kind = "image"
      /\ e_args.key.some /\ e_args.compress
      /\ d_args.key = e_args.key
      /\ d_args.decompress )
    => (d_result.kind = "Ok" /\ files[d_args.output_path] = TextFile(e_plain))

\* C9: applying lsb::decode to the image encode wrote to the output path
\* returns the text that was passed to lsb::encode.
C9_WrittenImageCarriesPayload ==
    EncodeOk =>
        LET written == files[FinalOutputPath(e_args.output_path)]
        IN  /\ written.kind = "image"
            /\ lsb_decode(written.image).kind = "Ok"
            /\ lsb_decode(written.image).val = e_data

\* C10: when decompression is requested and the text to unframe does not
\* start with "COMPRESSED:", decode fails with DecodingError("Decompression
\* expected, but message is not compressed"); the text is not passed on as
\* uncompressed and nothing is written to the output.
C10_MarkerAbsent ==
    \A i \in 1..Len(d_log) :
        (d_log[i].stage = "decompress" /\ ~StartsWith(d_log[i].input, Marker)) =>
            /\ d_log[i].output.kind = "DecodingError"
            /\ d_pc = "done"
            /\ d_result = Err("DecodingError",
                              "Decompression expected, but message is not compressed")
            /\ files[d_args.output_path].kind = "none"
            /\ d_args.output_path \notin Range(writes)

C10_Witness ==
    /\ d_pc = "done"
    /\ d_args.decompress
    /\ Len(d_log) > 0
    /\ d_log[Len(d_log)].stage = "decompress"
    /\ Len(d_log[Len(d_log)].input) > 0
    /\ ~StartsWith(d_log[Len(d_log)].input, Marker)
    /\ d_result.kind = "DecodingError"
    /\ files[d_args.output_path].kind = "none"

\* C11: when decompression is not requested and the text reaching the framing
\* check starts with "COMPRESSED:", decode fails with DecodingError("Data is
\* compressed but decompression was not requested"); the framed text is not
\* passed on and nothing is written to the output.
C11_MarkerPresent ==
    \A i \in 1..Len(d_log) :
        (d_log[i].stage = "check" /\ StartsWith(d_log[i].input, Marker)) =>
            /\ ~d_args.decompress
            /\ d_log[i].output.kind = "DecodingError"
            /\ d_pc = "done"
            /\ d_result = Err("DecodingError",
                              "Data is compressed but decompression was not requested")
            /\ files[d_args.output_path].kind = "none"
            /\ d_args.output_path \notin Range(writes)

C11_Witness ==
    /\ d_pc = "done"
    /\ ~d_args.decompress
    /\ e_args.compress
    /\ d_args.carrier_path = StegoPng
    /\ Len(d_log) > 0
    /\ d_log[Len(d_log)].stage = "check"
    /\ StartsWith(d_log[Len(d_log)].input, Marker)
    /\ d_result.kind = "DecodingError"
    /\ files[d_args.output_path].kind = "none"

\* C12: for every payload and every pair of different passphrases k1 # k2 of
\* at most 32 bytes each, decoding with k2 an image that encode produced
\* with k1 fails with a DecryptionError and produces no payload.
C12_WrongKeyDetected ==
    ( /\ EncodeOk
      /\ d_pc = "done"
      /\ d_args.carrier_path \in {FinalOutputPath(e_args.output_path), StegoPng}
      /\ files[d_args.carrier_path].kind = "image"
      /\ e_args.key.some /\ d_args.key.some
      /\ e_args.key.val # d_args.key.val
      /\ Len(e_args.key.val) <= KEY_SIZE /\ Len(d_args.key.val) <= KEY_SIZE )
    => ( /\ d_result.kind = "DecryptionError"
         /\ files[d_args.output_path].kind = "none" )

\* ------------------------------------------------------------------------
\* Bit-level properties of lsb::encode and lsb::decode (checked under SpecLsb)
\* ------------------------------------------------------------------------
\* the byte whose bits, most significant first, are the low bits of the
\* channels at 0-based linear indices 8k .. 8k+7
AssembledByte(image, k) ==
    LET lsb(i) == image.data[i + 1] % 2
    IN  128 * lsb(8 * k) + 64 * lsb(8 * k + 1) + 32 * lsb(8 * k + 2) + 16 * lsb(8 * k + 3)
        + 8 * lsb(8 * k + 4) + 4 * lsb(8 * k + 5) + 2 * lsb(8 * k + 6) + lsb(8 * k + 7)

\* the bytes of s before its first zero byte
BeforeFirstZero(s) ==
    LET zeros == {k \in 1..Len(s) : s[k] = 0}
    IN  IF zeros = {} THEN s
        ELSE SubSeq(s, 1, (CHOOSE k \in zeros : \A m \in zeros : k <= m) - 1)

\* C18: lsb::decode stops at the first fully assembled byte equal to 0x00:
\* the payload it returns holds only the bytes before that byte, never holds
\* 0x00, and is the same whatever the channels after the delimiter hold.
C18_StopsAtDelimiter ==
    /\ l_decoded.kind = "Ok" => 0 \notin Range(l_decoded.val)
    /\ l_pc \in {"decoded", "decoded_scribbled"} =>
          l_decoded = Ok(BeforeFirstZero(l_data \o <<0>>))
    /\ l_pc = "decoded_raw" =>
          \A k \in 0..((Len(l_image.data) \div 8) - 1) :
              (AssembledByte(l_image, k) = 0
                 /\ \A m \in 0..(k - 1) : AssembledByte(l_image, m) # 0)
              => (l_decoded.kind = "Ok" =>
                    /\ Len(l_decoded.val) = k
                    /\ \A m \in 0..(k - 1) : l_decoded.val[m + 1] = AssembledByte(l_image, m))

C18_Witness ==
    /\ l_pc = "decoded_scribbled"
    /\ l_data = <<65, 122>>
    /\ Len(l_image.data) >= 32
    /\ l_image.data[1] = 255
    /\ l_decoded = Ok(l_data)

\* C19: for every byte index k of the delimited data and every bit j from 7
\* down to 0, lsb::encode stores bit j of byte k in the low bit of the channel
\* at linear index i = 8k + (7 - j), which is channel ch of pixel (x, y) with
\* i = (y * width + x) * 3 + ch; lsb::decode assembles its bytes from the
\* same channels in the same order.
C19_BitAndScanOrder ==
    /\ (l_pc \in {"encoded", "decoded", "decoded_scribbled"} /\ l_encoded.kind = "Ok") =>
          \A k \in 0..Len(l_data), j \in 0..7 :
              LET i == 8 * k + (7 - j)
                  width == l_image.width
                  x == (i \div 3) % width
                  y == (i \div 3) \div width
                  ch == i % 3
              IN  /\ x < width /\ y < l_image.height
                  /\ i = (y * width + x) * 3 + ch
                  /\ l_encoded.val.data[i + 1] % 2 = Bit((l_data \o <<0>>)[k + 1], j)
    /\ (l_pc = "decoded" /\ l_decoded.kind = "Ok") =>
          \A k \in 0..(Len(l_decoded.val) - 1) :
              l_decoded.val[k + 1] = AssembledByte(l_encoded.val, k)

C19_Witness ==
    /\ l_pc = "decoded"
    /\ l_data = <<65, 122>>
    /\ l_image.width = 4 /\ l_image.height = 3
    /\ l_image.data[1] = 255
    /\ l_encoded.kind = "Ok"
    /\ l_decoded = Ok(l_data)

\* C20: after a successful lsb::encode of d, every channel byte of the
\* result has the upper 7 bits of the carrier's byte, every channel at linear
\* index >= 8 * (len(d) + 1) is identical to the carrier's, and the width and
\* height are the carrier's.
C20_EmbeddingFrame ==
    l_encoded.kind = "Ok" =>
        /\ l_encoded.val.width = l_carrier0.width
        /\ l_encoded.val.height = l_carrier0.height
        /\ Len(l_encoded.val.data) = Len(l_carrier0.data)
        /\ \A i \in 0..(Len(l_carrier0.data) - 1) :
              /\ l_encoded.val.data[i + 1] \div 2 = l_carrier0.data[i + 1] \div 2
              /\ (i >= 8 * (Len(l_data) + 1) =>
                    l_encoded.val.data[i + 1] = l_carrier0.data[i + 1])

C20_Witness ==
    /\ l_pc = "encoded"
    /\ l_encoded.kind = "Ok"
    /\ l_data = <<122>>
    /\ Len(l_carrier0.data) > 16
    /\ l_carrier0.data[2] = 85
    /\ l_encoded.val.data # l_carrier0.data

\* C22: when width*height*3 is not a multiple of 8 and no delimiter is found,
\* the trailing group of fewer than 8 low bits contributes no byte: the text
\* lsb::decode returns is made of the complete groups only.
C22_OnlyCompleteGroups ==
    ( /\ l_pc = "decoded_raw"
      /\ Len(l_image.data) % 8 # 0
      /\ \A k \in 0..((Len(l_image.data) \div 8) - 1) : AssembledByte(l_image, k) # 0
      /\ l_decoded.kind = "Ok" )
    => l_decoded.val = [k \in 1..(Len(l_image.data) \div 8) |-> AssembledByte(l_image, k - 1)]

\* C23: lsb::encode never indexes a pixel outside the image: whenever its
\* capacity check passes, every coordinate it writes has x < width and
\* y < height; an image of zero width or zero height is rejected, not
\* indexed; lsb::decode assembles its bytes from existing channels only.
C23_NoOutOfBounds ==
    /\ l_encoded.kind # "Panic"
    /\ l_decoded.kind # "Panic"
    /\ l_pc = "encoded" =>
          /\ (l_image.width = 0 \/ l_image.height = 0) => l_encoded.kind = "EncodingError"
          /\ l_encoded.kind = "Ok" =>
                \A i \in 0..(8 * (Len(l_data) + 1) - 1) :
                    /\ PixelX(i, l_image.width) < l_image.width
                    /\ PixelY(i, l_image.width) < l_image.height
                    /\ SampleIndex(PixelX(i, l_image.width), PixelY(i, l_image.width),
                                   ChannelIndex(i), l_image.width) <= Len(l_image.data)
    /\ l_decoded.kind = "Ok" =>
          8 * Len(l_decoded.val) < Len(IF l_pc = "decoded_raw" THEN l_image.data
                                       ELSE l_encoded.val.data) + 8

C23_Witness ==
    /\ l_pc = "encoded"
    /\ l_image.width = 0
    /\ l_image.height = 3
    /\ l_data = <<>>
    /\ l_encoded.kind = "EncodingError"

\* C24: a payload with a NUL byte is truncated, not rejected: lsb::encode
\* refuses a text only for lack of capacity, and for every text d it accepts
\* lsb::decode(lsb::encode(d, c)) is the longest prefix of d without 0x00,
\* which is d itself exactly when d has no 0x00.
C24_NulTruncates ==
    /\ (l_pc = "encoded" /\ l_encoded.kind # "Ok") =>
          ~is_sufficient_capacity(l_data \o <<0>>, l_image)
    /\ l_pc = "decoded" =>
          /\ l_decoded.kind = "Ok"
          /\ IsPrefix(l_decoded.val, l_data)
          /\ 0 \notin Range(l_decoded.val)
          /\ (Len(l_decoded.val) < Len(l_data) => l_data[Len(l_decoded.val) + 1] = 0)
          /\ (l_decoded.val = l_data <=> 0 \notin Range(l_data))

C24_Witness ==
    /\ l_pc = "decoded"
    /\ l_data = <<65, 0>>
    /\ l_image.data[1] = 255
    /\ l_decoded = Ok(<<65>>)

\* ------------------------------------------------------------------------
\* Properties of the codec operations (checked under SpecCodec)
\* ------------------------------------------------------------------------
\* C13: for every text p, the empty text included, and every 32-byte key k,
\* decrypt(encrypt(p, k), k) = Ok(p), whatever nonce encrypt drew.
C13_AeadRoundTrip ==
    (c_pc = "decrypted" /\ c_how = "sealed") => c_out = Ok(c_text)

C13_Witness ==
    /\ c_pc = "decrypted"
    /\ c_how = "sealed"
    /\ c_text = <<>>
    /\ c_pass = PassUnicode
    /\ Len(B64Decode(c_blob).val) = NONCE_SIZE + TAG_SIZE
    /\ c_out = Ok(c_text)

\* C14: aes::decrypt given valid base64 text that decodes to fewer than 12
\* bytes, the empty string included, returns a DecryptionError value.
C14_ShortBlobIsError ==
    ( /\ c_pc = "decrypted"
      /\ B64Decode(c_blob).kind = "Ok"
      /\ Len(B64Decode(c_blob).val) < 12 )
    => c_out.kind = "DecryptionError"

C16_KeyDerivation ==
    c_key # NoResult =>
        IF Len(c_pass) <= 32
        THEN /\ c_key.kind = "Ok"
             /\ Len(c_key.val) = 32
             /\ \A i \in 1..32 : c_key.val[i] = (IF i <= Len(c_pass) THEN c_pass[i] ELSE 0)
        ELSE /\ c_key.kind = "EncryptionError"
             /\ c_key.val = <<>>

C16_Witness ==
    /\ c_pc = "keyed"
    /\ c_pass = PassUnicode
    /\ c_key.kind = "Ok"
    /\ SubSeq(c_key.val, 1, 4) = PassUnicode
    /\ c_key.val[5] = 0

\* C17: for every byte sequence p, the empty one included, the framed text
\* begins with "COMPRESSED:", and removing the marker, base64-decoding and
\* decompressing it yields exactly p.
C17_FramingRoundTrip ==
    /\ c_pc \in {"framed", "unframed"} =>
          /\ StartsWith(c_blob, Marker)
          /\ LET base64_data == SubSeq(c_blob, Len(Marker) + 1, Len(c_blob))
                 compressed_data == B64Decode(base64_data)
             IN  /\ compressed_data.kind = "Ok"
                 /\ decompress(compressed_data.val) = Ok(c_text)
    /\ (c_pc = "unframed" /\ IsUtf8(c_text)) => c_out = Ok(c_text)

C17_Witness ==
    /\ c_pc = "unframed"
    /\ c_text = <<>>
    /\ Len(c_blob) > Len(Marker)
    /\ c_out = Ok(<<>>)

\* C25: with no key and compress = false on encode and no key and
\* decompress = false on decode, the text decode hands to the output writer
\* is the text encode read from the data file, for every payload text,
\* those that begin with "COMPRESSED:" included.
C25_PlainPipelineIdentity ==
    ( /\ EncodeOk
      /\ d_pc = "done"
      /\ ~e_args.key.some /\ ~e_args.compress
      /\ ~d_args.key.some /\ ~d_args.decompress
      /\ d_args.carrier_path \in {FinalOutputPath(e_args.output_path), StegoPng}
      /\ files[d_args.carrier_path].kind = "image" )
    => ( /\ d_result.kind = "Ok"
         /\ d_msg = e_plain
         /\ files[d_args.output_path] = TextFile(e_plain) )

\* C26: if encode returns an error, that call has created or overwritten no
\* file at the final output image path, for lossless and lossy carriers and
\* for output paths with and without an image extension; if decode returns
\* an error, no decoded text file has been written.
C26_FailureLeavesNoOutput ==
    /\ (e_pc = "done" /\ e_result.kind # "Ok") =>
          /\ FinalOutputPath(e_args.output_path) \notin Range(writes)
          /\ files[FinalOutputPath(e_args.output_path)].kind = "none"
    /\ (d_pc = "done" /\ d_result.kind # "Ok") =>
          /\ d_args.output_path \notin Range(writes)
          /\ files[d_args.output_path].kind = "none"

\* ------------------------------------------------------------------------
\* Progress notifications (checked under Spec)
\* ------------------------------------------------------------------------
ProgressOf(op) == SelectSeq(progress, LAMBDA n : n.op = op)

\* the notifications of a complete, successful encode with these arguments
ExpectedEncodeProgress(args) ==
    <<Update("encode", "Loading carrier image..."), Update("encode", "Reading data file...")>>
    \o (IF args.key.some THEN <<Update("encode", "Encrypting data...")>> ELSE <<>>)
    \o (IF args.compress THEN <<Update("encode", "Compressing data...")>> ELSE <<>>)
    \o <<Update("encode", "Encoding data into image..."),
         Update("encode", "Saving encoded image..."),
         Finish("encode", "Encoding completed successfully")>>

ExpectedDecodeProgress(args) ==
    <<Update("decode", "Loading carrier image..."),
      Update("decode", "Decoding data from image...")>>
    \o (IF args.key.some THEN <<Update("decode", "Decrypting data...")>> ELSE <<>>)
    \o (IF args.decompress THEN <<Update("decode", "Decompressing data...")>> ELSE <<>>)
    \o <<Update("decode", "Saving decoded message..."),
         Finish("decode", "Decoding completed successfully")>>

\* C21: encode's notifications are, in this order, loading, reading,
\* encrypting (only with a key), compressing (only if requested), encoding,
\* saving, then one finish_with_message, which is emitted last and exactly
\* when encode returns Ok; an encode that stopped with an error emitted a
\* proper prefix without the finish.  decode obeys the analogous order.
C21_ProgressOrdered ==
    /\ IsPrefix(ProgressOf("encode"), ExpectedEncodeProgress(e_args))
    /\ (ProgressOf("encode") = ExpectedEncodeProgress(e_args))
          <=> (e_pc = "done" /\ e_result.kind = "Ok")
    /\ e_pc \notin {"idle", "load"} => Len(ProgressOf("encode")) > 0
    /\ IsPrefix(ProgressOf("decode"), ExpectedDecodeProgress(d_args))
    /\ (ProgressOf("decode") = ExpectedDecodeProgress(d_args))
          <=> (d_pc = "done" /\ d_result.kind = "Ok")
    /\ d_pc \notin {"idle", "load"} => Len(ProgressOf("decode")) > 0
    /\ \A i \in 1..Len(progress) :
          progress[i].call = "finish_with_message" =>
             (i = Len(progress) \/ progress[i + 1].op # progress[i].op)

C21_Witness ==
    /\ e_pc = "done" /\ e_result.kind = "Ok"
    /\ e_args.key.some /\ e_args.compress
    /\ Len(ProgressOf("encode")) = 7
    /\ d_pc = "done" /\ d_result.kind = "DecryptionError"
    /\ Len(ProgressOf("decode")) = 3

\* ------------------------------------------------------------------------
\* ui/tui/mod.rs: the terminal interface and its worker threads
\* ------------------------------------------------------------------------
\* ProgressState; progress is kept in hundredths, result "None" is Option::None
ProgressState(message, fraction, result) ==
    [message |-> message, progress |-> fraction, result |-> result]

FreshProgressState == ProgressState("Welcome to Mindbender", 0, "None")

\* impl Progress for TuiProgress: update, under the lock
ProgressValue(message, current) ==
    CASE message = "Starting operation..." -> 0
      [] message = "Loading carrier image..." -> 10
      [] message = "Reading data file..." -> 20
      [] message = "Encrypting data..." -> 40
      [] message = "Encoding data into image..." -> 60
      [] message = "Saving encoded image..." -> 80
      [] message = "Decoding data from image..." -> 50
      [] message = "Decrypting data..." -> 70
      [] message = "Saving decoded message..." -> 90
      [] OTHER -> current

TuiUpdate(state, message) ==
    [state EXCEPT !.message = message, !.progress = ProgressValue(message, state.progress)]

\* impl Progress for TuiProgress: finish_with_message, under the lock
TuiFinish_no_result(state, message) ==
    [state EXCEPT !.message = message, !.progress = 100]

TuiFinish(state, message) ==
    ProgressState(message, 100, message)

get_output_path(operation, carrier) ==
    CASE operation = "Encode" -> (IF carrier THEN "<carrier>-encoded.png" ELSE "encoded.png")
      [] operation = "Decode" -> (IF carrier THEN "<carrier>-decoded.txt" ELSE "decoded.txt")
      [] OTHER -> "output"

\* the values the closure of thread::spawn captures
Worker(arc, operation, data, carrier, key) ==
    [pc |-> "spawned", arc |-> arc, operation |-> operation, data |-> data,
     carrier |-> carrier, key |-> key, invoked |-> FALSE, notes |-> <<>>, next |-> 1,
     outcome |-> "running"]

\* a thread that ended: its captured values are dropped, its outcome is kept
\* for the record
Retired(me, pc) ==
    [Worker(me.arc, "None", FALSE, FALSE, 0) EXCEPT
        !.pc = pc, !.invoked = me.invoked, !.outcome = me.outcome]

\* a ProgressState whose last Arc has been dropped
DroppedProgressState == ProgressState("", 0, "None")

\* the progress calls of a call of operations::encode / decode that runs to
\* its end
NotificationsOf(operation, key, flag) ==
    LET args == [key |-> (IF key > 0 THEN SomeKey(<<107>>) ELSE NoKey),
                 compress |-> flag, decompress |-> flag]
    IN  IF operation = "Encode" THEN ExpectedEncodeProgress(args)
        ELSE ExpectedDecodeProgress(args)

TuiInit ==
    /\ t_state = "Main"
    /\ t_operation = "None"
    /\ t_menu = 0
    /\ t_data = FALSE
    /\ t_carrier = FALSE
    /\ t_output = "None"
    /\ t_key = 0
    /\ t_shared = <<FreshProgressState>>
    /\ t_workers = <<>>
    /\ files = [p \in AllPaths |-> NoFile]
    /\ LsbIdle
    /\ PipelineIdle
    /\ CapacityIdle
    /\ CodecIdle

\* AppState::Main: Up and Down
TuiMenuMove ==
    /\ t_state = "Main"
    /\ \/ t_menu > 0 /\ t_menu' = t_menu - 1
       \/ t_menu < 3 /\ t_menu' = t_menu + 1
    /\ UNCHANGED <<t_state, t_operation, t_data, t_carrier, t_output, t_key, t_shared,
                   t_workers, lvars, fvars, evars, dvars, cvars, kvars>>

\* AppState::Main: Enter (handle_menu_selection); FileExplorer::new may fail,
\* which ends run_app.  Entry 3 returns without changing anything.
handle_menu_selection ==
    /\ t_state = "Main"
    /\ t_menu \in {0, 1, 2}
    /\ IF t_menu = 0
       THEN /\ t_operation' = "Encode"
            /\ t_state' \in {"FileSelectData", "Exited"}
       ELSE IF t_menu = 1
       THEN /\ t_operation' = "Decode"
            /\ t_state' \in {"FileSelectCarrier", "Exited"}
       ELSE /\ t_operation' = t_operation
            /\ t_state' = "KeyInput"
    /\ UNCHANGED <<t_menu, t_data, t_carrier, t_output, t_key, t_shared, t_workers,
                   lvars, fvars, evars, dvars, cvars, kvars>>

\* AppState::Main: 'q'
TuiQuit ==
    /\ t_state = "Main"
    /\ t_state' = "Exited"
    /\ UNCHANGED <<t_operation, t_menu, t_data, t_carrier, t_output, t_key, t_shared,
                   t_workers, lvars, fvars, evars, dvars, cvars, kvars>>

\* AppState::FileSelect: Esc, or Enter on a selected path
TuiFileSelectKey ==
    /\ t_state \in {"FileSelectData", "FileSelectCarrier"}
    /\ \/ /\ t_state' = "Main"
          /\ UNCHANGED <<t_data, t_carrier>>
       \/ /\ t_state = "FileSelectData"
          /\ t_data' = TRUE
          /\ t_state' \in {"FileSelectCarrier", "Exited"}
          /\ UNCHANGED t_carrier
       \/ /\ t_state = "FileSelectCarrier"
          /\ t_carrier' = TRUE
          /\ t_state' = "KeyInput"
          /\ UNCHANGED t_data
    /\ UNCHANGED <<t_operation, t_menu, t_output, t_key, t_shared, t_workers,
                   lvars, fvars, evars, dvars, cvars, kvars>>

\* AppState::KeyInput: Esc, a character, Backspace
TuiKeyInputKey ==
    /\ t_state = "KeyInput"
    /\ \/ t_state' = "Main" /\ t_key' = 0
       \/ t_key < MaxKeyLen /\ t_key' = t_key + 1 /\ UNCHANGED t_state
       \/ t_key > 0 /\ t_key' = t_key - 1 /\ UNCHANGED t_state
    /\ UNCHANGED <<t_operation, t_menu, t_data, t_carrier, t_output, t_shared, t_workers,
                   lvars, fvars, evars, dvars, cvars, kvars>>

\* AppState::KeyInput: Enter; run_operation resets the shared state and spawns
\* the worker (it never returns Err)
run_operation ==
    /\ t_state = "KeyInput"
    /\ Len(t_workers) < MaxRuns
    /\ t_output' = get_output_path(t_operation, t_carrier)
    /\ t_state' = "Processing"
    /\ t_shared' = [t_shared EXCEPT ![Len(t_shared)] =
                       ProgressState("Starting operation...", 0, "None")]
    /\ t_workers' = Append(t_workers,
                           Worker(Len(t_shared), t_operation, t_data, t_carrier, t_key))
    /\ UNCHANGED <<t_operation, t_menu, t_data, t_carrier, t_key,
                   lvars, fvars, evars, dvars, cvars, kvars>>

\* terminal.draw in AppState::Processing, once progress >= 1.0 is seen
TuiDraw ==
    /\ t_state = "Processing"
    /\ t_shared[Len(t_shared)].progress >= 100
    /\ t_state' = "Complete"
    /\ UNCHANGED <<t_operation, t_menu, t_data, t_carrier, t_output, t_key, t_shared,
                   t_workers, lvars, fvars, evars, dvars, cvars, kvars>>

\* AppState::Complete: any key
TuiCompleteKey ==
    /\ t_state = "Complete"
    /\ t_state' = "Main"
    /\ LET released == \A w \in 1..Len(t_workers) :
                          t_workers[w].arc = Len(t_shared) => t_workers[w].pc \in {"exit", "dead"}
           old == IF released THEN [t_shared EXCEPT ![Len(t_shared)] = DroppedProgressState]
                  ELSE t_shared
       IN  t_shared' = Append(old, FreshProgressState)
    /\ UNCHANGED <<t_operation, t_menu, t_data, t_carrier, t_output, t_key, t_workers,
                   lvars, fvars, evars, dvars, cvars, kvars>>

\* the worker's match on the operation: the call is made only with the paths
\* it needs; the compress flag is not among the arguments the call passes
WorkerStart ==
    /\ t_state # "Exited"
    /\ \E w \in 1..Len(t_workers) :
          /\ t_workers[w].pc = "spawned"
          /\ LET me == t_workers[w]
                 invoked == \/ me.operation = "Encode" /\ me.data /\ me.carrier
                            \/ me.operation = "Decode" /\ me.carrier
             IN  IF invoked
                 THEN \E flag \in BOOLEAN :
                         t_workers' = [t_workers EXCEPT ![w] =
                             [me EXCEPT !.pc = "running", !.invoked = TRUE,
                                        !.notes = NotificationsOf(me.operation, me.key, flag)]]
                 ELSE t_workers' = [t_workers EXCEPT ![w] =
                             [me EXCEPT !.pc = "returned", !.outcome = "Ok"]]
    /\ UNCHANGED <<t_state, t_operation, t_menu, t_data, t_carrier, t_output, t_key, t_shared,
                   lvars, fvars, evars, dvars, cvars, kvars>>

\* the next progress call of the operation; it returns Ok after its finish
WorkerNotify ==
    /\ t_state # "Exited"
    /\ \E w \in 1..Len(t_workers) :
          /\ t_workers[w].pc = "running"
          /\ LET me == t_workers[w]
                 note == me.notes[me.next]
             IN  IF note.call = "update"
                 THEN /\ t_shared' = [t_shared EXCEPT ![me.arc] = TuiUpdate(@, note.msg)]
                      /\ t_workers' = [t_workers EXCEPT ![w].next = me.next + 1]
                 ELSE /\ t_shared' = [t_shared EXCEPT ![me.arc] = TuiFinish(@, note.msg)]
                      /\ t_workers' = [t_workers EXCEPT ![w] =
                                          [me EXCEPT !.pc = "returned", !.outcome = "Ok"]]
    /\ UNCHANGED <<t_state, t_operation, t_menu, t_data, t_carrier, t_output, t_key,
                   lvars, fvars, evars, dvars, cvars, kvars>>

\* the operation stops after one of its updates: it returns an error, or it
\* panics and the thread unwinds
WorkerFail ==
    /\ t_state # "Exited"
    /\ \E w \in 1..Len(t_workers) :
          /\ t_workers[w].pc = "running"
          /\ t_workers[w].next > 1
          /\ t_workers[w].notes[t_workers[w].next].call = "update"
             \/ t_workers[w].notes[t_workers[w].next - 1].msg = "Saving encoded image..."
             \/ t_workers[w].notes[t_workers[w].next - 1].msg = "Saving decoded message..."
          /\ \/ t_workers' = [t_workers EXCEPT ![w].pc = "returned", ![w].outcome = "Err"]
             \/ t_workers' = [t_workers EXCEPT ![w] =
                                 Retired([t_workers[w] EXCEPT !.outcome = "Panic"], "dead")]
    /\ UNCHANGED <<t_state, t_operation, t_menu, t_data, t_carrier, t_output, t_key, t_shared,
                   lvars, fvars, evars, dvars, cvars, kvars>>

\* the worker's match on the result, under the lock
WorkerReport ==
    /\ t_state # "Exited"
    /\ \E w \in 1..Len(t_workers) :
          /\ t_workers[w].pc = "returned"
          /\ LET me == t_workers[w]
                 state == t_shared[me.arc]
                 reported == IF me.outcome = "Ok"
                             THEN ProgressState(state.message, 100,
                                                IF state.result = "None"
                                                THEN "Operation completed successfully"
                                                ELSE state.result)
                             ELSE ProgressState("Error", 100, "Operation failed")
             IN  /\ t_shared' = [t_shared EXCEPT ![me.arc] =
                                    IF me.arc < Len(t_shared) THEN DroppedProgressState
                                    ELSE reported]
                 /\ t_workers' = [t_workers EXCEPT ![w] = Retired(me, "exit")]
    /\ UNCHANGED <<t_state, t_operation, t_menu, t_data, t_carrier, t_output, t_key,
                   lvars, fvars, evars, dvars, cvars, kvars>>

WorkerStep == WorkerStart \/ WorkerNotify \/ WorkerFail \/ WorkerReport

TuiNext ==
    \/ TuiMenuMove \/ handle_menu_selection \/ TuiQuit \/ TuiFileSelectKey
    \/ TuiKeyInputKey \/ run_operation \/ TuiDraw \/ TuiCompleteKey
    \/ WorkerStart \/ WorkerNotify \/ WorkerFail \/ WorkerReport

SpecTui == TuiInit /\ [][TuiNext]_vars

\* the draw loop keeps running and a spawned thread keeps being scheduled;
\* key presses are up to the user
SpecTuiFair == SpecTui /\ WF_vars(TuiDraw) /\ WF_vars(WorkerStep)

\* C27: after Enter in KeyInput has put the app in Processing, the app
\* eventually moves to Complete, whatever the outcome of the operation.
C27_EventuallyComplete ==
    (t_state = "Processing") ~> (t_state = "Complete")

\* C28: whenever the app is in Complete the shared result is Some, and it is
\* "Operation failed" exactly when the operation returned an error; no two
\* workers hold the same ProgressState, so none writes into that of a later
\* operation.
C28_ResultBeforeComplete ==
    /\ t_state = "Complete" =>
          LET state == t_shared[Len(t_shared)]
              me == t_workers[Len(t_workers)]
          IN  /\ me.arc = Len(t_shared)
              /\ state.result # "None"
              /\ (state.result = "Operation failed") <=> (me.outcome = "Err")
    /\ \A v, w \in 1..Len(t_workers) : v < w => t_workers[v].arc < t_workers[w].arc
    /\ \A i \in 1..Len(t_shared) :
          (\A w \in 1..Len(t_workers) : t_workers[w].arc # i) =>
              t_shared[i] \in {FreshProgressState, DroppedProgressState}

C28_Witness ==
    /\ t_state = "Complete"
    /\ Len(t_workers) = 2
    /\ t_workers[2].pc = "returned"
    /\ t_workers[2].outcome = "Ok"
    /\ t_workers[2].invoked
    /\ t_workers[1].pc = "returned"
    /\ t_shared[Len(t_shared)].result = "Encoding completed successfully"

\* C29: the result "Operation completed successfully" is shown only for a
\* run in which operations::encode or operations::decode was invoked and
\* returned Ok.
C29_SuccessOnlyIfInvoked ==
    \A w \in 1..Len(t_workers) :
        t_shared[t_workers[w].arc].result = "Operation completed successfully" =>
            (t_workers[w].invoked /\ t_workers[w].outcome = "Ok")

\* ------------------------------------------------------------------------
\* stenography/util.rs: the capacity computed from the dimensions.  Numbers
\* are sequences of base-256 digits, lowest first: a u32 has four, a usize
\* eight.
\* ------------------------------------------------------------------------
DigitAt(a, i) == IF i >= 1 /\ i <= Len(a) THEN a[i] ELSE 0

\* the digits of a number below 2^31
FromNat(n) == [i \in 1..4 |-> (n \div (256 ^ (i - 1))) % 256]

Widen(a, n) == [i \in 1..n |-> DigitAt(a, i)]

IsZero(a) == \A i \in 1..Len(a) : a[i] = 0

\* the product of two numbers, exact, with Len(a) + Len(b) digits
MulExact(a, b) ==
    LET n == Len(a) + Len(b)
        column(k) ==
            LET S[i \in 0..k] == IF i = 0 THEN 0 ELSE S[i - 1] + DigitAt(a, i) * DigitAt(b, k - i + 1)
            IN  S[k]
        T[k \in 0..n] == IF k = 0 THEN 0 ELSE column(k) + (T[k - 1] \div 256)
    IN  [k \in 1..n |-> T[k] % 256]

\* a * b on u32: the low 32 bits, and whether the product needed more
MulU32(a, b) ==
    LET full == MulExact(a, b)
    IN  [val |-> SubSeq(full, 1, 4), overflow |-> ~IsZero(SubSeq(full, 5, Len(full)))]

\* a / 8
DivBy8(a) ==
    LET n == Len(a)
        R[i \in 1..(n + 1)] == IF i = n + 1 THEN 0 ELSE (R[i + 1] * 256 + a[i]) % 8
    IN  [i \in 1..n |-> (R[i + 1] * 256 + a[i]) \div 8]

\* a <= b, for numbers with the same count of digits
LessEq(a, b) ==
    \/ a = b
    \/ \E i \in 1..Len(a) : a[i] < b[i] /\ \A j \in (i + 1)..Len(a) : a[j] = b[j]

\* (image.width() * image.height() * 3) as usize: every outcome a build can
\* give.  With overflow checks a product beyond u32 panics, without them it
\* wraps.
image_capacity_bits(width, height) ==
    LET pixels == MulU32(width, height)
        bits == MulU32(pixels.val, FromNat(3))
        wrapped == Ok(Widen(bits.val, 8))
    IN  IF pixels.overflow \/ bits.overflow
        THEN {wrapped, Panic("attempt to multiply with overflow")}
        ELSE {wrapped}

image_capacity_bytes(bits) == DivBy8(bits)

util_is_sufficient_capacity(text_len, bits) == LessEq(text_len, image_capacity_bytes(bits))

\* dimensions: small ones, those around the square root of 2^32 / 3, and the
\* largest
CapacityDims ==
    {FromNat(n) : n \in {0, 1, 2, 3, 10, 255, 256, 37837, 37838, 40000, 65535, 65536}}
    \cup {<<0, 0, 0, 128>>, <<255, 255, 255, 255>>}

\* text lengths: 0, 1, 5 and 2^29
CapacityLens ==
    {Widen(FromNat(n), 8) : n \in {0, 1, 5, 536870912}}

CapacityInit ==
    /\ k_pc = "start"
    /\ k_width \in CapacityDims
    /\ k_height \in CapacityDims
    /\ k_len = Widen(FromNat(0), 8)
    /\ k_bits = NoResult
    /\ k_ok = "unset"
    /\ files = [p \in AllPaths |-> NoFile]
    /\ LsbIdle
    /\ PipelineIdle
    /\ CodecIdle
    /\ TuiIdle

\* image_capacity_bits(&image)
CapacityBits ==
    /\ k_pc = "start"
    /\ k_bits' \in image_capacity_bits(k_width, k_height)
    /\ k_pc' = "computed"
    /\ UNCHANGED <<k_width, k_height, k_len, k_ok, lvars, fvars, evars, dvars, cvars, tvars>>

\* is_sufficient_capacity(text, &image) of the same module
CapacityCheck ==
    /\ k_pc = "computed"
    /\ k_bits.kind = "Ok"
    /\ \E text_len \in CapacityLens :
          /\ k_len' = text_len
          /\ k_ok' = util_is_sufficient_capacity(text_len, k_bits.val)
    /\ k_pc' = "checked"
    /\ UNCHANGED <<k_width, k_height, k_bits, lvars, fvars, evars, dvars, cvars, tvars>>

CapacityNext == CapacityBits \/ CapacityCheck

SpecCapacity == CapacityInit /\ [][CapacityNext]_vars

\* width * height * 3, exact
TrueCapacityBits(width, height) == MulExact(MulExact(width, height), FromNat(3))

\* C30: image_capacity_bits returns the mathematical value width*height*3 for
\* every pair of 32-bit dimensions: the multiplication neither wraps nor
\* traps, and is_sufficient_capacity accepts no payload beyond the true
\* capacity.
C30_CapacityIsExact ==
    /\ k_pc \in {"computed", "checked"} =>
          /\ k_bits.kind = "Ok"
          /\ Widen(k_bits.val, 12) = TrueCapacityBits(k_width, k_height)
    /\ (k_pc = "checked" /\ k_ok = TRUE) =>
          LessEq(Widen(k_len, 12), DivBy8(TrueCapacityBits(k_width, k_height)))

====
